---- MODULE Spec2Model ----
(***************************************************************************)
(* A model of the three-rotor Enigma machine of enigma.go: the static      *)
(* wiring tables, construction and the configuration setters, the rotor    *)
(* stepping (rotateRotors) and the substitution pass (encryptChar).        *)
(*                                                                         *)
(* Runes are modelled by their code points (Int); a Go string is a         *)
(* 0-indexed function from byte offsets to code points.                    *)
(***************************************************************************)
EXTENDS Integers, Sequences, FiniteSets, TLC

VARIABLES
    e,       \* the machine (*Enigma): nil until NewEnigma succeeds
    call,    \* the last call made: its name, arguments, error and return value
    letters, \* the number of letters A-Z passed to encryptChar so far
    phase,   \* "api": free calls; "step": stepping; "enc", "dec": the runs over a message; "period": long runs
    start,   \* the rotor positions (1-26) a run of SpecStep, SpecMsg or SpecPeriod starts from
    s,       \* the message fed to the first run
    t,       \* the output of the first run
    u        \* the output of the second run, which is fed t

vars == <<e, call, letters, phase, start, s, t, u>>

(* ------------------------------------------------------------------ *)
(* Characters and strings                                              *)
(* ------------------------------------------------------------------ *)

Alphabet == <<"A","B","C","D","E","F","G","H","I","J","K","L","M",
              "N","O","P","Q","R","S","T","U","V","W","X","Y","Z">>

\* 'A', 'Z': the rune literals the code compares against and subtracts.
RuneA == 65
RuneZ == 90

\* The code point of a one-letter string of the alphabet.
Ord(ch) == RuneA + (CHOOSE i \in 1..26 : Alphabet[i] = ch) - 1

\* A Go string literal, given letter by letter, as its bytes s[0], s[1], ...
GoString(lit) == [j \in 0..(Len(lit) - 1) |-> Ord(lit[j + 1])]

\* Go's % truncates towards zero: the result takes the sign of the dividend.
GoMod(a, n) == IF a >= 0 THEN a % n ELSE 0 - ((0 - a) % n)

\* unicode.ToUpper on the runes the model feeds: ASCII lower case, and the two
\* non-ASCII runes whose upper case is an ASCII letter (U+0131 dotless i -> 'I',
\* U+017F long s -> 'S'); every other rune of the model maps to itself.
ToUpper(r) ==
    IF r >= 97 /\ r <= 122 THEN r - 32
    ELSE IF r = 305 THEN 73
    ELSE IF r = 383 THEN 83
    ELSE r

(* ------------------------------------------------------------------ *)
(* Static tables                                                       *)
(* ------------------------------------------------------------------ *)

rotorWirings ==
    [name \in {"I", "II", "III", "IV", "V"} |->
        CASE name = "I"   -> GoString(<<"E","K","M","F","L","G","D","Q","V","Z","N","T","O",
                                        "W","Y","H","X","U","S","P","A","I","B","R","C","J">>)
          [] name = "II"  -> GoString(<<"A","J","D","K","S","I","R","U","X","B","L","H","W",
                                        "T","M","C","Q","G","Z","N","P","Y","F","V","O","E">>)
          [] name = "III" -> GoString(<<"B","D","F","H","J","L","C","P","R","T","X","V","Z",
                                        "N","Y","E","I","W","G","A","K","M","U","S","Q","O">>)
          [] name = "IV"  -> GoString(<<"E","S","O","V","P","Z","J","A","Y","Q","U","I","R",
                                        "H","X","L","N","F","T","G","K","D","C","M","W","B">>)
          [] name = "V"   -> GoString(<<"V","Z","B","R","G","I","T","Y","U","P","S","D","N",
                                        "H","L","X","A","W","M","J","Q","O","F","E","C","K">>)]

rotorNotches ==
    [name \in {"I", "II", "III", "IV", "V"} |->
        CASE name = "I"   -> 17
          [] name = "II"  -> 5
          [] name = "III" -> 22
          [] name = "IV"  -> 10
          [] name = "V"   -> 26]

\* The reflector table with the last two letters of B exchanged ("...JTA").
reflectorsTypo ==
    [name \in {"A", "B", "C"} |->
        CASE name = "A" -> GoString(<<"E","J","M","Z","A","L","Y","X","V","B","W","F","C",
                                      "R","Q","U","O","N","T","S","P","I","K","H","G","D">>)
          [] name = "B" -> GoString(<<"Y","R","U","H","Q","S","L","D","P","X","N","G","O",
                                      "K","M","I","E","B","F","Z","C","W","V","J","T","A">>)
          [] name = "C" -> GoString(<<"F","V","P","J","I","A","O","Y","E","D","R","Z","X",
                                      "W","G","C","T","K","U","Q","S","B","N","M","H","L">>)]

reflectors ==
    [name \in {"A", "B", "C"} |->
        CASE name = "A" -> GoString(<<"E","J","M","Z","A","L","Y","X","V","B","W","F","C",
                                      "R","Q","U","O","N","T","S","P","I","K","H","G","D">>)
          [] name = "B" -> GoString(<<"Y","R","U","H","Q","S","L","D","P","X","N","G","O",
                                      "K","M","I","E","B","F","Z","C","W","V","J","A","T">>)
          [] name = "C" -> GoString(<<"F","V","P","J","I","A","O","Y","E","D","R","Z","X",
                                      "W","G","C","T","K","U","Q","S","B","N","M","H","L">>)]

(* ------------------------------------------------------------------ *)
(* Errors: the messages of the code, named after the error taxonomy.   *)
(* The formatted argument (%s, %c) of a message is left out.           *)
(* ------------------------------------------------------------------ *)

NoError           == "nil"
WrongRotorCount   == "exactly three rotors must be specified"
UnknownReflector  == "invalid reflector type"
UnknownRotor      == "invalid rotor type"
OutOfRangePos     == "rotor positions must be between 1 and 26"
OutOfRangeRing    == "ring settings must be between 1 and 26"
InvalidLetter     == "plugboard connections must be between A and Z"
AlreadyConnected  == "letter is already connected"

(* ------------------------------------------------------------------ *)
(* The machine                                                         *)
(* ------------------------------------------------------------------ *)

\* The nil *Enigma that a failed NewEnigma returns.
nil == [rotors |-> << >>, reflector |-> << >>, plugboard |-> << >>]

Rotor(name, wiring, position, notch, ringSetting) ==
    [name |-> name, wiring |-> wiring, position |-> position,
     notch |-> notch, ringSetting |-> ringSetting]

\* The first index of rotorNames whose name is no key of rotorWirings, or 0.
FirstUnknown(rotorNames) ==
    IF \E i \in 1..Len(rotorNames) : rotorNames[i] \notin DOMAIN rotorWirings
    THEN CHOOSE i \in 1..Len(rotorNames) :
            /\ rotorNames[i] \notin DOMAIN rotorWirings
            /\ \A k \in 1..(i - 1) : rotorNames[k] \in DOMAIN rotorWirings
    ELSE 0

\* NewEnigma looking the reflector up before it counts the rotor names.
NewEnigmaReflectorFirst(rotorNames, reflectorName) ==
    IF reflectorName \notin DOMAIN reflectors
    THEN [e |-> nil, err |-> UnknownReflector]
    ELSE IF Len(rotorNames) # 3
    THEN [e |-> nil, err |-> WrongRotorCount]
    ELSE IF FirstUnknown(rotorNames) # 0
    THEN [e |-> nil, err |-> UnknownRotor]
    ELSE [e |-> [rotors |-> [i \in 0..2 |->
                                Rotor(rotorNames[i + 1], rotorWirings[rotorNames[i + 1]],
                                      0, rotorNotches[rotorNames[i + 1]], 0)],
                 reflector |-> reflectors[reflectorName],
                 plugboard |-> << >>],
          err |-> NoError]

\* NewEnigma: the pair (machine, error) it returns.
NewEnigma(rotorNames, reflectorName) ==
    IF Len(rotorNames) # 3
    THEN [e |-> nil, err |-> WrongRotorCount]
    ELSE IF reflectorName \notin DOMAIN reflectors
    THEN [e |-> nil, err |-> UnknownReflector]
    ELSE IF FirstUnknown(rotorNames) # 0
    THEN [e |-> nil, err |-> UnknownRotor]
    ELSE [e |-> [rotors |-> [i \in 0..2 |->
                                Rotor(rotorNames[i + 1], rotorWirings[rotorNames[i + 1]],
                                      0, rotorNotches[rotorNames[i + 1]], 0)],
                 reflector |-> reflectors[reflectorName],
                 plugboard |-> << >>],
          err |-> NoError]

\* Reset clearing the ring settings along with the positions.
ResetAlsoRings(m) ==
    [m EXCEPT !.rotors = [i \in 0..2 |->
                            [m.rotors[i] EXCEPT !.position = 0, !.ringSetting = 0]]]

\* Reset: the machine after the call.
Reset(m) ==
    [m EXCEPT !.rotors = [i \in 0..2 |-> [m.rotors[i] EXCEPT !.position = 0]]]

\* SetRotorPositions checking and storing one argument after the other.
SetRotorPositionsOneByOne(m, pos1, pos2, pos3) ==
    IF pos1 < 1 \/ pos1 > 26
    THEN [e |-> m, err |-> OutOfRangePos]
    ELSE IF pos2 < 1 \/ pos2 > 26
    THEN [e |-> [m EXCEPT !.rotors[0].position = pos1 - 1], err |-> OutOfRangePos]
    ELSE IF pos3 < 1 \/ pos3 > 26
    THEN [e |-> [m EXCEPT !.rotors[0].position = pos1 - 1,
                          !.rotors[1].position = pos2 - 1],
          err |-> OutOfRangePos]
    ELSE [e |-> [m EXCEPT !.rotors[0].position = pos1 - 1,
                          !.rotors[1].position = pos2 - 1,
                          !.rotors[2].position = pos3 - 1],
          err |-> NoError]

\* SetRotorPositions: the machine after the call and the error returned.
SetRotorPositions(m, pos1, pos2, pos3) ==
    IF pos1 < 1 \/ pos1 > 26 \/ pos2 < 1 \/ pos2 > 26 \/ pos3 < 1 \/ pos3 > 26
    THEN [e |-> m, err |-> OutOfRangePos]
    ELSE [e |-> [m EXCEPT !.rotors[0].position = pos1 - 1,
                          !.rotors[1].position = pos2 - 1,
                          !.rotors[2].position = pos3 - 1],
          err |-> NoError]

\* SetRingSettings taking its arguments as 0-indexed: 0 passes the check.
SetRingSettingsFromZero(m, r1, r2, r3) ==
    IF r1 < 0 \/ r1 > 26 \/ r2 < 0 \/ r2 > 26 \/ r3 < 0 \/ r3 > 26
    THEN [e |-> m, err |-> OutOfRangeRing]
    ELSE [e |-> [m EXCEPT !.rotors[0].ringSetting = r1 - 1,
                          !.rotors[1].ringSetting = r2 - 1,
                          !.rotors[2].ringSetting = r3 - 1],
          err |-> NoError]

\* SetRingSettings checking and storing one argument after the other.
SetRingSettingsOneByOne(m, r1, r2, r3) ==
    IF r1 < 1 \/ r1 > 26
    THEN [e |-> m, err |-> OutOfRangeRing]
    ELSE IF r2 < 1 \/ r2 > 26
    THEN [e |-> [m EXCEPT !.rotors[0].ringSetting = r1 - 1], err |-> OutOfRangeRing]
    ELSE IF r3 < 1 \/ r3 > 26
    THEN [e |-> [m EXCEPT !.rotors[0].ringSetting = r1 - 1,
                          !.rotors[1].ringSetting = r2 - 1],
          err |-> OutOfRangeRing]
    ELSE [e |-> [m EXCEPT !.rotors[0].ringSetting = r1 - 1,
                          !.rotors[1].ringSetting = r2 - 1,
                          !.rotors[2].ringSetting = r3 - 1],
          err |-> NoError]

\* SetRingSettings: the machine after the call and the error returned.
SetRingSettings(m, r1, r2, r3) ==
    IF r1 < 1 \/ r1 > 26 \/ r2 < 1 \/ r2 > 26 \/ r3 < 1 \/ r3 > 26
    THEN [e |-> m, err |-> OutOfRangeRing]
    ELSE [e |-> [m EXCEPT !.rotors[0].ringSetting = r1 - 1,
                          !.rotors[1].ringSetting = r2 - 1,
                          !.rotors[2].ringSetting = r3 - 1],
          err |-> NoError]

\* A Go map assignment m[k] = v.
MapSet(m, k, v) == [x \in (DOMAIN m) \cup {k} |-> IF x = k THEN v ELSE m[x]]

\* AddPlugboardConnection looking only a up in the plugboard, not b.
AddPlugboardConnectionChecksOnlyA(m, a0, b0) ==
    LET a == ToUpper(a0)
        b == ToUpper(b0)
    IN  IF a < RuneA \/ a > RuneZ \/ b < RuneA \/ b > RuneZ
        THEN [e |-> m, err |-> InvalidLetter]
        ELSE IF a \in DOMAIN m.plugboard
        THEN [e |-> m, err |-> AlreadyConnected]
        ELSE [e |-> [m EXCEPT !.plugboard = MapSet(MapSet(m.plugboard, a, b), b, a)],
              err |-> NoError]

\* AddPlugboardConnection storing a -> b without b -> a.
AddPlugboardConnectionOneWay(m, a0, b0) ==
    LET a == ToUpper(a0)
        b == ToUpper(b0)
    IN  IF a < RuneA \/ a > RuneZ \/ b < RuneA \/ b > RuneZ
        THEN [e |-> m, err |-> InvalidLetter]
        ELSE IF a \in DOMAIN m.plugboard
        THEN [e |-> m, err |-> AlreadyConnected]
        ELSE IF b \in DOMAIN m.plugboard
        THEN [e |-> m, err |-> AlreadyConnected]
        ELSE [e |-> [m EXCEPT !.plugboard = MapSet(m.plugboard, a, b)],
              err |-> NoError]

\* AddPlugboardConnection: the machine after the call and the error returned.
AddPlugboardConnection(m, a0, b0) ==
    LET a == ToUpper(a0)
        b == ToUpper(b0)
    IN  IF a < RuneA \/ a > RuneZ \/ b < RuneA \/ b > RuneZ
        THEN [e |-> m, err |-> InvalidLetter]
        ELSE IF a \in DOMAIN m.plugboard
        THEN [e |-> m, err |-> AlreadyConnected]
        ELSE IF b \in DOMAIN m.plugboard
        THEN [e |-> m, err |-> AlreadyConnected]
        ELSE [e |-> [m EXCEPT !.plugboard = MapSet(MapSet(m.plugboard, a, b), b, a)],
              err |-> NoError]

\* rotateRotors without the double step: a middle rotor at its notch turns the
\* left rotor over and stays where it is.
rotateRotorsNoDoubleStep(rs) ==
    LET r1 == IF rs[1].position = rs[1].notch - 1
              THEN [rs EXCEPT ![0].position = GoMod(rs[0].position + 1, 26)]
              ELSE IF rs[2].position = rs[2].notch - 1
              THEN [rs EXCEPT ![1].position = GoMod(rs[1].position + 1, 26)]
              ELSE rs
    IN  [r1 EXCEPT ![2].position = GoMod(r1[2].position + 1, 26)]

\* rotateRotors advancing the right rotor only when no other rotor turns over.
rotateRotorsRightInElse(rs) ==
    IF rs[1].position = rs[1].notch - 1
    THEN [rs EXCEPT ![1].position = GoMod(rs[1].position + 1, 26),
                    ![0].position = GoMod(rs[0].position + 1, 26)]
    ELSE IF rs[2].position = rs[2].notch - 1
    THEN [rs EXCEPT ![1].position = GoMod(rs[1].position + 1, 26),
                    ![2].position = GoMod(rs[2].position + 1, 26)]
    ELSE [rs EXCEPT ![2].position = GoMod(rs[2].position + 1, 26)]

\* rotateRotors comparing the position with the notch itself, not notch - 1.
rotateRotorsNotchOffByOne(rs) ==
    LET r1 == IF rs[1].position = rs[1].notch
              THEN [rs EXCEPT ![1].position = GoMod(rs[1].position + 1, 26),
                              ![0].position = GoMod(rs[0].position + 1, 26)]
              ELSE IF rs[2].position = rs[2].notch
              THEN [rs EXCEPT ![1].position = GoMod(rs[1].position + 1, 26)]
              ELSE rs
    IN  [r1 EXCEPT ![2].position = GoMod(r1[2].position + 1, 26)]

\* rotateRotors turning over at and past the notch (>= for ==).
rotateRotorsNotchAtLeast(rs) ==
    LET r1 == IF rs[1].position >= rs[1].notch - 1
              THEN [rs EXCEPT ![1].position = GoMod(rs[1].position + 1, 26),
                              ![0].position = GoMod(rs[0].position + 1, 26)]
              ELSE IF rs[2].position >= rs[2].notch - 1
              THEN [rs EXCEPT ![1].position = GoMod(rs[1].position + 1, 26)]
              ELSE rs
    IN  [r1 EXCEPT ![2].position = GoMod(r1[2].position + 1, 26)]

\* rotateRotors reading the notch against the ring: the position less the ring
\* setting is compared with notch - 1.
rotateRotorsRingNotch(rs) ==
    LET at(r) == GoMod(r.position - r.ringSetting + 26, 26) = r.notch - 1
        r1 == IF at(rs[1])
              THEN [rs EXCEPT ![1].position = GoMod(rs[1].position + 1, 26),
                              ![0].position = GoMod(rs[0].position + 1, 26)]
              ELSE IF at(rs[2])
              THEN [rs EXCEPT ![1].position = GoMod(rs[1].position + 1, 26)]
              ELSE rs
    IN  [r1 EXCEPT ![2].position = GoMod(r1[2].position + 1, 26)]

\* rotateRotors: the rotors after one step.
rotateRotors(rs) ==
    LET r1 == IF rs[1].position = rs[1].notch - 1
              THEN [rs EXCEPT ![1].position = GoMod(rs[1].position + 1, 26),
                              ![0].position = GoMod(rs[0].position + 1, 26)]
              ELSE IF rs[2].position = rs[2].notch - 1
              THEN [rs EXCEPT ![1].position = GoMod(rs[1].position + 1, 26)]
              ELSE rs
    IN  [r1 EXCEPT ![2].position = GoMod(r1[2].position + 1, 26)]

\* The plugboard lookup of encryptChar: the partner when there is one.
Plug(pb, c) == IF c \in DOMAIN pb THEN pb[c] ELSE c

\* (position - ringSetting + 26) % 26 of one rotor.
Offset(r) == GoMod(r.position - r.ringSetting + 26, 26)

\* One rotor of the forward pass (the body of the loop i = 2, 1, 0).
ForwardRotor(r, pos) ==
    LET offset == Offset(r)
        shifted == GoMod(pos + offset, 26)
        newPos == r.wiring[shifted] - RuneA
    IN  GoMod(newPos - offset + 26, 26)

\* The inner loop of the backward pass: the first j in 0..25 whose wiring
\* letter is pos; pos is left as it is when there is none.
InverseLookup(wiring, pos) ==
    IF \E j \in 0..25 : wiring[j] - RuneA = pos
    THEN CHOOSE j \in 0..25 :
            /\ wiring[j] - RuneA = pos
            /\ \A k \in 0..(j - 1) : wiring[k] - RuneA # pos
    ELSE pos

\* The backward pass of one rotor without the shift back by the offset.
BackwardRotorNoShiftBack(r, pos) ==
    LET offset == Offset(r)
        shifted == GoMod(pos + offset, 26)
    IN  InverseLookup(r.wiring, shifted)

\* The backward pass of one rotor shifting back without the + 26.
BackwardRotorNoPlus26(r, pos) ==
    LET offset == Offset(r)
        shifted == GoMod(pos + offset, 26)
        j == InverseLookup(r.wiring, shifted)
    IN  GoMod(j - offset, 26)

\* One rotor of the backward pass (the body of the loop i = 0, 1, 2).
BackwardRotor(r, pos) ==
    LET offset == Offset(r)
        shifted == GoMod(pos + offset, 26)
        j == InverseLookup(r.wiring, shifted)
    IN  GoMod(j - offset + 26, 26)

\* The letter branch stepping the rotors after the substitution, not before.
SubstituteThenRotate(m, c) ==
    LET rs == m.rotors
        c1 == Plug(m.plugboard, c)
        p0 == c1 - RuneA
        f2 == ForwardRotor(rs[2], p0)
        f1 == ForwardRotor(rs[1], f2)
        f0 == ForwardRotor(rs[0], f1)
        rf == m.reflector[f0] - RuneA
        b0 == BackwardRotor(rs[0], rf)
        b1 == BackwardRotor(rs[1], b0)
        b2 == BackwardRotor(rs[2], b1)
        result == b2 + RuneA
    IN  [e |-> [m EXCEPT !.rotors = rotateRotors(rs)],
         ret |-> Plug(m.plugboard, result)]

\* The letter branch without the reflector between the two passes.
SubstituteNoReflector(m, c) ==
    LET rs == rotateRotors(m.rotors)
        c1 == Plug(m.plugboard, c)
        p0 == c1 - RuneA
        f2 == ForwardRotor(rs[2], p0)
        f1 == ForwardRotor(rs[1], f2)
        f0 == ForwardRotor(rs[0], f1)
        b0 == BackwardRotor(rs[0], f0)
        b1 == BackwardRotor(rs[1], b0)
        b2 == BackwardRotor(rs[2], b1)
        result == b2 + RuneA
    IN  [e |-> [m EXCEPT !.rotors = rs], ret |-> Plug(m.plugboard, result)]

\* The letter branch of encryptChar: the step, then plugboard, rotors right
\* to left, reflector, rotors left to right, plugboard.
Substitute(m, c) ==
    LET rs == rotateRotors(m.rotors)
        c1 == Plug(m.plugboard, c)
        p0 == c1 - RuneA
        f2 == ForwardRotor(rs[2], p0)
        f1 == ForwardRotor(rs[1], f2)
        f0 == ForwardRotor(rs[0], f1)
        rf == m.reflector[f0] - RuneA
        b0 == BackwardRotor(rs[0], rf)
        b1 == BackwardRotor(rs[1], b0)
        b2 == BackwardRotor(rs[2], b1)
        result == b2 + RuneA
    IN  [e |-> [m EXCEPT !.rotors = rs], ret |-> Plug(m.plugboard, result)]

\* encryptChar stepping the rotors before it looks at the rune.
encryptCharStepsFirst(m, c) ==
    IF c < RuneA \/ c > RuneZ
    THEN [e |-> [m EXCEPT !.rotors = rotateRotors(m.rotors)], ret |-> c]
    ELSE Substitute(m, c)

\* encryptChar: the machine after the call and the rune returned.
encryptChar(m, c) ==
    IF c < RuneA \/ c > RuneZ
    THEN [e |-> m, ret |-> c]
    ELSE Substitute(m, c)

\* The three rotor positions and the three ring settings of a machine.
Positions(m) == <<m.rotors[0].position, m.rotors[1].position, m.rotors[2].position>>
RingSettings(m) ==
    <<m.rotors[0].ringSetting, m.rotors[1].ringSetting, m.rotors[2].ringSetting>>

(* ------------------------------------------------------------------ *)
(* Bounds and inputs                                                   *)
(* ------------------------------------------------------------------ *)

\* The most letters A-Z a behaviour of Spec or SpecStep passes to encryptChar.
MaxLetters == 2

\* The longest message of SpecMsg.
MaxLen == 3

Letters == RuneA..RuneZ

\* Well-formed requests to NewEnigma: every rotor in every slot once, and
\* every reflector.
GoodNewArgs ==
    { <<<<"I", "II", "III">>, "B">>,
      <<<<"II", "III", "IV">>, "A">>,
      <<<<"III", "IV", "V">>, "C">>,
      <<<<"IV", "V", "I">>, "B">>,
      <<<<"V", "I", "II">>, "C">> }

\* Ill-formed requests to NewEnigma, with one defect and with several.
BadNewArgs ==
    { <<<<"I", "II">>, "B">>,
      <<<<"I", "II", "III", "IV">>, "B">>,
      <<<< >>, "D">>,
      <<<<"I", "II", "III">>, "D">>,
      <<<<"I", "VI", "III">>, "B">>,
      <<<<"VI", "II", "beta">>, "A">>,
      <<<<"I", "II", "VI">>, "D">>,
      <<<<"VI", "II">>, "B">> }

NewArgs == GoodNewArgs \cup BadNewArgs

\* Arguments of SetRotorPositions in Spec.
PosTriples ==
    { <<1, 1, 1>>, <<26, 26, 26>>, <<1, 5, 22>>, <<3, 26, 17>>,
      <<0, 1, 1>>, <<27, 1, 1>>, <<1, 0, 1>>, <<2, 2, 27>>, <<-1, 5, 26>> }

\* Arguments of SetRingSettings in Spec.
RingTriples ==
    { <<1, 1, 1>>, <<2, 26, 5>>,
      <<0, 1, 1>>, <<27, 1, 1>>, <<1, 0, 2>>, <<2, 2, 27>>, <<26, -1, 3>> }

\* Arguments of AddPlugboardConnection in Spec, over the runes 'A', 'B', 'b',
\* '1', '@', '[', U+017F (whose upper case is 'S') and U+00E9.
PlugPairs ==
    { <<65, 66>>, <<98, 65>>, <<65, 65>>, <<383, 98>>, <<66, 66>>,
      <<65, 49>>, <<64, 66>>, <<91, 91>>, <<233, 65>> }

\* Runes passed to encryptChar in Spec: 'A', 'Z', and '1', ' ', '@', '[', 'a'.
Chars == {65, 90, 49, 32, 64, 91, 97}

Call(op, names, refl, args, err, ret) ==
    [op |-> op, names |-> names, refl |-> refl, args |-> args, err |-> err, ret |-> ret]

NoCall == Call("none", << >>, "", << >>, NoError, 0)

(* ------------------------------------------------------------------ *)
(* Spec: the machine under any sequence of calls                       *)
(* ------------------------------------------------------------------ *)

Init ==
    /\ e = nil
    /\ call = NoCall
    /\ letters = 0
    /\ phase = "api"
    /\ start = <<1, 1, 1>>
    /\ s = << >>
    /\ t = << >>
    /\ u = << >>

CallNewEnigma ==
    /\ e = nil
    /\ \E a \in NewArgs :
          LET r == NewEnigma(a[1], a[2])
          IN  /\ e' = r.e
              /\ call' = Call("NewEnigma", a[1], a[2], << >>, r.err, 0)
    /\ UNCHANGED <<letters, phase, start, s, t, u>>

CallReset ==
    /\ e # nil
    /\ e' = Reset(e)
    /\ call' = Call("Reset", << >>, "", << >>, NoError, 0)
    /\ UNCHANGED <<letters, phase, start, s, t, u>>

CallSetRotorPositions ==
    /\ e # nil
    /\ \E p \in PosTriples :
          LET r == SetRotorPositions(e, p[1], p[2], p[3])
          IN  /\ e' = r.e
              /\ call' = Call("SetRotorPositions", << >>, "", p, r.err, 0)
    /\ UNCHANGED <<letters, phase, start, s, t, u>>

CallSetRingSettings ==
    /\ e # nil
    /\ \E p \in RingTriples :
          LET r == SetRingSettings(e, p[1], p[2], p[3])
          IN  /\ e' = r.e
              /\ call' = Call("SetRingSettings", << >>, "", p, r.err, 0)
    /\ UNCHANGED <<letters, phase, start, s, t, u>>

CallAddPlugboardConnection ==
    /\ e # nil
    /\ \E p \in PlugPairs :
          LET r == AddPlugboardConnection(e, p[1], p[2])
          IN  /\ e' = r.e
              /\ call' = Call("AddPlugboardConnection", << >>, "", p, r.err, 0)
    /\ UNCHANGED <<letters, phase, start, s, t, u>>

\* One call of encryptChar on c, as processIO makes it for each rune of a line.
EncryptStep(c) ==
    LET r == encryptChar(e, c)
    IN  /\ c \in Letters => letters < MaxLetters
        /\ e' = r.e
        /\ call' = Call("encryptChar", << >>, "", <<c>>, NoError, r.ret)
        /\ letters' = IF c \in Letters THEN letters + 1 ELSE letters

CallEncryptChar ==
    /\ e # nil
    /\ \E c \in Chars : EncryptStep(c)
    /\ UNCHANGED <<phase, start, s, t, u>>

Next ==
    \/ CallNewEnigma
    \/ CallReset
    \/ CallSetRotorPositions
    \/ CallSetRingSettings
    \/ CallAddPlugboardConnection
    \/ CallEncryptChar

Spec == Init /\ [][Next]_vars

(* ------------------------------------------------------------------ *)
(* SpecStep: the stepping of the rotors, from every position of the    *)
(* middle and the right rotor                                          *)
(* ------------------------------------------------------------------ *)

\* Starting positions of the left rotor in SpecStep: the first, one in the middle
\* and the last.
LeftVals == {1, 13, 26}

\* Runes passed to encryptChar in SpecStep: 'A' and '1'.
StepChars == {65, 49}

InitStep ==
    /\ \E a \in GoodNewArgs, l \in LeftVals, m \in 1..26, r \in 1..26 :
          /\ e = SetRotorPositions(NewEnigma(a[1], a[2]).e, l, m, r).e
          /\ start = <<l, m, r>>
    /\ call = NoCall
    /\ letters = 0
    /\ phase = "step"
    /\ s = << >>
    /\ t = << >>
    /\ u = << >>

StepEncryptChar ==
    /\ \E c \in StepChars : EncryptStep(c)
    /\ UNCHANGED <<phase, start, s, t, u>>

NextStep == StepEncryptChar

SpecStep == InitStep /\ [][NextStep]_vars

(* ------------------------------------------------------------------ *)
(* SpecMsg: a configured machine run over a message, then run again    *)
(* from the same starting positions over the output                    *)
(* ------------------------------------------------------------------ *)

RECURSIVE AddConnections(_, _)
\* The plugboard loop of main: one AddPlugboardConnection per pair; main exits
\* at the first error, so the machine is nil then.
AddConnections(m, pairs) ==
    IF pairs = << >> THEN m
    ELSE LET r == AddPlugboardConnection(m, Head(pairs)[1], Head(pairs)[2])
         IN  IF r.err # NoError THEN nil ELSE AddConnections(r.e, Tail(pairs))

\* The configuration sequence of main: NewEnigma, Reset, SetRotorPositions,
\* SetRingSettings, the plugboard pairs; nil when a step fails.
Configure(names, refl, pos, ring, pairs) ==
    LET n == NewEnigma(names, refl)
        p == SetRotorPositions(Reset(n.e), pos[1], pos[2], pos[3])
        r == SetRingSettings(p.e, ring[1], ring[2], ring[3])
    IN  IF n.err # NoError THEN nil
        ELSE IF p.err # NoError THEN nil
        ELSE IF r.err # NoError THEN nil
        ELSE AddConnections(r.e, pairs)

MsgNewArgs ==
    { <<<<"I", "II", "III">>, "B">>,
      <<<<"IV", "V", "I">>, "A">>,
      <<<<"V", "III", "II">>, "C">> }

\* Starting positions: the default, and ones from which the first letters of
\* the message turn the middle and the left rotor over.
MsgPositions == { <<1, 1, 1>>, <<26, 5, 22>>, <<1, 26, 17>>, <<13, 3, 5>> }

MsgRings == { <<1, 1, 1>>, <<2, 26, 5>>, <<26, 13, 1>> }

\* Plugboards: none; 'A'-'Q'; the self-pair 'Z'-'Z'; 'a'-'q' and 'M'-'Z'.
MsgPlugs ==
    { << >>, << <<65, 81>> >>, << <<90, 90>> >>, << <<97, 113>>, <<77, 90>> >> }

\* Runes of the messages: 'A', 'M', 'Z' and ' '.
MsgChars == {65, 77, 90, 32}

InitMsg ==
    /\ \E a \in MsgNewArgs, p \in MsgPositions, r \in MsgRings, pl \in MsgPlugs :
          /\ e = Configure(a[1], a[2], p, r, pl)
          /\ start = p
    /\ e # nil
    /\ call = NoCall
    /\ letters = 0
    /\ phase = "enc"
    /\ s = << >>
    /\ t = << >>
    /\ u = << >>

\* The first run: one more rune of the message through encryptChar.
MsgEncrypt ==
    /\ phase = "enc"
    /\ Len(s) < MaxLen
    /\ \E c \in MsgChars :
          LET r == encryptChar(e, c)
          IN  /\ e' = r.e
              /\ call' = Call("encryptChar", << >>, "", <<c>>, NoError, r.ret)
              /\ s' = Append(s, c)
              /\ t' = Append(t, r.ret)
    /\ UNCHANGED <<letters, phase, start, u>>

\* The end of the first run: the starting positions are set again.
MsgRestore ==
    /\ phase = "enc"
    /\ LET r == SetRotorPositions(e, start[1], start[2], start[3])
       IN  /\ e' = r.e
           /\ call' = Call("SetRotorPositions", << >>, "", start, r.err, 0)
    /\ phase' = "dec"
    /\ UNCHANGED <<letters, start, s, t, u>>

\* The second run: the next rune of the first run's output through encryptChar.
MsgDecrypt ==
    /\ phase = "dec"
    /\ Len(u) < Len(t)
    /\ LET c == t[Len(u) + 1]
           r == encryptChar(e, c)
       IN  /\ e' = r.e
           /\ call' = Call("encryptChar", << >>, "", <<c>>, NoError, r.ret)
           /\ u' = Append(u, r.ret)
    /\ UNCHANGED <<letters, phase, start, s, t>>

NextMsg ==
    \/ MsgEncrypt
    \/ MsgRestore
    \/ MsgDecrypt

SpecMsg == InitMsg /\ [][NextMsg]_vars

(* ------------------------------------------------------------------ *)
(* SpecPeriod: long runs of letters, over a whole period of the rotors *)
(* ------------------------------------------------------------------ *)

\* The number of letters after which the rotor positions repeat.
Period == 26 * 25 * 26

\* The starts of the long runs of a machine m: the default, and the middle
\* rotor at its notch.
LongStarts(m) ==
    { <<1, 1, 1>>, <<26, m.rotors[1].notch, 1>> }

InitPeriod ==
    /\ \E a \in GoodNewArgs, l \in LeftVals, m \in 1..26, r \in 1..26 :
          /\ e = SetRotorPositions(NewEnigma(a[1], a[2]).e, l, m, r).e
          /\ start = <<l, m, r>>
    /\ call = NoCall
    /\ letters = 0
    /\ phase = "period"
    /\ s = << >>
    /\ t = << >>
    /\ u = << >>

\* One more letter of a run: a long run goes three letters past a period,
\* every other run is three letters long.
PeriodEncryptChar ==
    /\ letters < (IF start \in LongStarts(e) THEN Period + 3 ELSE 3)
    /\ LET r == encryptChar(e, RuneA)
       IN  /\ e' = r.e
           /\ call' = Call("encryptChar", << >>, "", <<RuneA>>, NoError, r.ret)
    /\ letters' = letters + 1
    /\ UNCHANGED <<phase, start, s, t, u>>

NextPeriod == PeriodEncryptChar

SpecPeriod == InitPeriod /\ [][NextPeriod]_vars

(* ------------------------------------------------------------------ *)
(* Properties                                                          *)
(* ------------------------------------------------------------------ *)

\* The step just taken is a call of encryptChar on a letter A-Z / on any
\* other rune / a call of the named configuration function.
LetterStep == call'.op = "encryptChar" /\ call'.args[1] \in Letters
NonLetterStep == call'.op = "encryptChar" /\ call'.args[1] \notin Letters
PlugStep == call'.op = "AddPlugboardConnection"

\* C1: reciprocity over sequences. Feeding a message s one rune at a time
\* through encryptChar gives t; with the starting positions set again, feeding
\* t through encryptChar gives s back, rune by rune (letters and non-letters).
C1_Reciprocity ==
    phase = "dec" =>
        /\ Len(u) <= Len(s)
        /\ \A k \in 1..Len(u) : u[k] = s[k]

\* A whole message of three runes with a space and a letter that the machine
\* changed, run back to itself through a plugboard, the left rotor having
\* turned over on the way.
C1_Witness ==
    /\ phase = "dec"
    /\ Len(s) = 3
    /\ u = s
    /\ \E k \in 1..3 : s[k] = 32
    /\ \E k \in 1..3 : s[k] \in Letters /\ t[k] # s[k]
    /\ DOMAIN e.plugboard # {}
    /\ start = <<26, 5, 22>>
    /\ e.rotors[0].position = 0

\* C2: the double step. When the middle rotor is at its notch position
\* (position = notch - 1) before a letter step, that step advances the left,
\* the middle and the right rotor by exactly 1 mod 26 each, wherever the right
\* rotor stands.
C2_DoubleStep ==
    [][ (LetterStep /\ e.rotors[1].position = e.rotors[1].notch - 1)
          => \A i \in 0..2 : e'.rotors[i].position = (e.rotors[i].position + 1) % 26
      ]_vars

\* After the first letter from a start with the left rotor at 26 and the
\* middle and the right rotor both at their notches: all three have advanced.
C2_Witness ==
    /\ phase = "step"
    /\ letters = 1
    /\ call.op = "encryptChar"
    /\ call.args[1] \in Letters
    /\ start[1] = 26
    /\ start[2] = e.rotors[1].notch
    /\ start[3] = e.rotors[2].notch
    /\ Positions(e) = <<0, start[2] % 26, start[3] % 26>>

\* C3: non-letter passthrough. encryptChar on a rune outside 'A'..'Z' returns
\* the rune and leaves the machine (positions, ring settings, plugboard) as it
\* was; rotor positions change only in encryptChar on a letter, Reset or
\* SetRotorPositions.
C3_NonLetterPassthrough ==
    [][ /\ NonLetterStep => (call'.ret = call'.args[1] /\ e' = e)
        /\ (e # nil /\ Positions(e') # Positions(e))
              => (LetterStep \/ call'.op \in {"Reset", "SetRotorPositions"})
      ]_vars

\* A lower-case 'a' passed through a machine with a plugboard, ring settings
\* and rotors off their initial positions.
C3_Witness ==
    /\ phase = "api"
    /\ call.op = "encryptChar"
    /\ call.args = <<97>>
    /\ call.ret = 97
    /\ Positions(e) = <<25, 25, 25>>
    /\ RingSettings(e) = <<1, 25, 4>>
    /\ DOMAIN e.plugboard # {}

\* C4: AddPlugboardConnection(a, b) with a = b (after upper-casing) fails with
\* AlreadyConnected and leaves the plugboard unchanged, also when the letter
\* has no partner yet; so no letter is ever mapped to itself in the plugboard.
C4_SelfPairRejected ==
    [][ /\ (/\ PlugStep
            /\ ToUpper(call'.args[1]) = ToUpper(call'.args[2])
            /\ ToUpper(call'.args[1]) \in Letters)
              => (call'.err = AlreadyConnected /\ e'.plugboard = e.plugboard)
        /\ e' # nil => \A x \in DOMAIN e'.plugboard : e'.plugboard[x] # x
      ]_vars

\* What every call of AddPlugboardConnection on the letters a, b (upper-cased)
\* does: a failed call changes nothing; a successful one adds a -> b and
\* b -> a and changes no other entry, no rotor and not the reflector.
PlugCallEffect(a, b) ==
    /\ call'.err \in {NoError, AlreadyConnected, InvalidLetter}
    /\ call'.err # NoError => e' = e
    /\ call'.err = NoError =>
          /\ DOMAIN e'.plugboard = (DOMAIN e.plugboard) \cup {a, b}
          /\ e'.plugboard[a] = b
          /\ e'.plugboard[b] = a
          /\ \A x \in (DOMAIN e.plugboard) \ {a, b} : e'.plugboard[x] = e.plugboard[x]
          /\ e'.rotors = e.rotors
          /\ e'.reflector = e.reflector

\* C5 as stated: AddPlugboardConnection fails with AlreadyConnected whenever a
\* or b already has a partner; a failed call leaves the plugboard as it was; a
\* successful call adds a -> b and b -> a and nothing else.
C5_AlreadyConnectedWhenever ==
    [][ PlugStep =>
          LET a == ToUpper(call'.args[1])
              b == ToUpper(call'.args[2])
          IN  /\ (a \in DOMAIN e.plugboard \/ b \in DOMAIN e.plugboard)
                    => call'.err = AlreadyConnected
              /\ PlugCallEffect(a, b)
      ]_vars

\* C5 amended: when a and b are both letters A-Z after upper-casing and a or b
\* already has a partner, the call fails with AlreadyConnected (a rune outside
\* A-Z is reported first, as InvalidLetter); a failed call leaves the plugboard
\* as it was; a successful call adds a -> b and b -> a and nothing else.
C5_AlreadyConnectedLetters ==
    [][ PlugStep =>
          LET a == ToUpper(call'.args[1])
              b == ToUpper(call'.args[2])
          IN  /\ (/\ a \in Letters
                  /\ b \in Letters
                  /\ (a \in DOMAIN e.plugboard \/ b \in DOMAIN e.plugboard))
                    => call'.err = AlreadyConnected
              /\ PlugCallEffect(a, b)
      ]_vars

\* A call refused because its second letter has a partner, its first has none.
C5_Witness ==
    /\ phase = "api"
    /\ call.op = "AddPlugboardConnection"
    /\ call.err = AlreadyConnected
    /\ ToUpper(call.args[1]) \notin DOMAIN e.plugboard
    /\ ToUpper(call.args[2]) \in DOMAIN e.plugboard
    /\ Positions(e) # <<0, 0, 0>>

\* C6: the plugboard invariant. In every reachable state the plugboard is a
\* symmetric partial mapping on A..Z: every key and every value is an
\* upper-case letter, and plugboard[x] = y implies plugboard[y] = x.
C6_PlugboardSymmetric ==
    e # nil =>
        \A x \in DOMAIN e.plugboard :
            /\ x \in Letters
            /\ e.plugboard[x] \in Letters
            /\ e.plugboard[x] \in DOMAIN e.plugboard
            /\ e.plugboard[e.plugboard[x]] = x

\* A plugboard of three entries, one of them entered as U+017F, after letters
\* were encrypted and a connection was refused.
C6_Witness ==
    /\ phase = "api"
    /\ call.op = "AddPlugboardConnection"
    /\ call.err = AlreadyConnected
    /\ DOMAIN e.plugboard = {65, 66, 83}
    /\ e.plugboard[83] = 66
    /\ letters >= 1

\* The wiring of a machine (rotor names, wirings and notches, the reflector)
\* is the same in m1 and m2.
SameWiring(m1, m2) ==
    /\ m1.reflector = m2.reflector
    /\ \A i \in 0..2 :
          /\ m1.rotors[i].name = m2.rotors[i].name
          /\ m1.rotors[i].wiring = m2.rotors[i].wiring
          /\ m1.rotors[i].notch = m2.rotors[i].notch

\* C7: SetRotorPositions(p0, p1, p2) is all-or-nothing. With an argument
\* outside [1,26] it fails with OutOfRange and changes nothing, also when the
\* other arguments are valid; with all three in [1,26] it succeeds, sets rotor
\* i to p_i - 1 and leaves ring settings and plugboard as they were.
C7_SetPositionsAllOrNothing ==
    [][ call'.op = "SetRotorPositions" =>
          LET p == call'.args
          IN  IF \E i \in 1..3 : p[i] < 1 \/ p[i] > 26
              THEN call'.err = OutOfRangePos /\ e' = e
              ELSE /\ call'.err = NoError
                   /\ Positions(e') = <<p[1] - 1, p[2] - 1, p[3] - 1>>
                   /\ RingSettings(e') = RingSettings(e)
                   /\ e'.plugboard = e.plugboard
                   /\ SameWiring(e', e)
      ]_vars

\* SetRotorPositions(2, 2, 27), refused on a machine whose rotors stand at
\* 25, 25, 25: the two valid arguments were not stored.
C7_Witness ==
    /\ phase = "api"
    /\ call.op = "SetRotorPositions"
    /\ call.args = <<2, 2, 27>>
    /\ call.err = OutOfRangePos
    /\ Positions(e) = <<25, 25, 25>>
    /\ DOMAIN e.plugboard # {}

\* Rotors I, II, III, reflector B, positions 1, 1, 1, ring settings 1, 1, 1,
\* no plugboard.
Golden == Configure(<<"I", "II", "III">>, "B", <<1, 1, 1>>, <<1, 1, 1>>, << >>)

\* C8: the golden value. The machine I, II, III / B at positions (1,1,1), ring
\* settings (1,1,1), empty plugboard returns 'B' for the input 'A', and its
\* rotor positions are then (0,0,1).
C8_GoldenValue ==
    [][ (e = Golden /\ call'.op = "encryptChar" /\ call'.args = <<65>>)
          => (call'.ret = 66 /\ Positions(e') = <<0, 0, 1>>)
      ]_vars

\* The golden machine after its first letter, 'A', with 'B' returned.
C8_Witness ==
    /\ phase = "api"
    /\ call.op = "encryptChar"
    /\ call.args = <<65>>
    /\ call.ret = 66
    /\ letters = 1
    /\ e = [Golden EXCEPT !.rotors[2].position = 1]

\* The machine a successful NewEnigma(names, refl) returns: every rotor at
\* position 0 with ring setting 0, carrying the wiring and the notch of its
\* name, in slot order; the reflector of the name; an empty plugboard.
FreshMachine(m, names, refl) ==
    /\ m # nil
    /\ \A i \in 0..2 :
          m.rotors[i] = Rotor(names[i + 1], rotorWirings[names[i + 1]], 0,
                              rotorNotches[names[i + 1]], 0)
    /\ m.reflector = reflectors[refl]
    /\ DOMAIN m.plugboard = {}

KnownRotors == {"I", "II", "III", "IV", "V"}
KnownReflectors == {"A", "B", "C"}

\* C9 as stated: NewEnigma fails with WrongRotorCount when there are not
\* exactly 3 rotor names, with UnknownReflector when the reflector name is not
\* A, B or C, with UnknownRotor when one of the three rotor names is not one
\* of I..V, and returns no machine then; on success the machine is fresh.
C9_ConstructionErrors ==
    [][ call'.op = "NewEnigma" =>
          LET names == call'.names
              refl == call'.refl
          IN  /\ Len(names) # 3 => (call'.err = WrongRotorCount /\ e' = nil)
              /\ refl \notin KnownReflectors => (call'.err = UnknownReflector /\ e' = nil)
              /\ (Len(names) = 3 /\ \E i \in 1..3 : names[i] \notin KnownRotors)
                    => (call'.err = UnknownRotor /\ e' = nil)
              /\ call'.err = NoError => FreshMachine(e', names, refl)
              /\ (/\ Len(names) = 3
                  /\ refl \in KnownReflectors
                  /\ \A i \in 1..3 : names[i] \in KnownRotors) => call'.err = NoError
      ]_vars

\* C9 amended: the three checks are made in this order and the first that
\* fails decides the error: WrongRotorCount when there are not exactly 3 rotor
\* names; otherwise UnknownReflector when the reflector name is not A, B or C;
\* otherwise UnknownRotor when one of the three rotor names is not one of
\* I..V; no machine is returned then; on success the machine is fresh.
C9_ConstructionErrorsInOrder ==
    [][ call'.op = "NewEnigma" =>
          LET names == call'.names
              refl == call'.refl
          IN  /\ Len(names) # 3 => (call'.err = WrongRotorCount /\ e' = nil)
              /\ (Len(names) = 3 /\ refl \notin KnownReflectors)
                    => (call'.err = UnknownReflector /\ e' = nil)
              /\ (/\ Len(names) = 3
                  /\ refl \in KnownReflectors
                  /\ \E i \in 1..3 : names[i] \notin KnownRotors)
                    => (call'.err = UnknownRotor /\ e' = nil)
              /\ call'.err = NoError => FreshMachine(e', names, refl)
              /\ (/\ Len(names) = 3
                  /\ refl \in KnownReflectors
                  /\ \A i \in 1..3 : names[i] \in KnownRotors) => call'.err = NoError
      ]_vars

\* The machine V, I, II / C just constructed.
C9_Witness ==
    /\ phase = "api"
    /\ call.op = "NewEnigma"
    /\ call.names = <<"V", "I", "II">>
    /\ call.err = NoError
    /\ e # nil
    /\ e.rotors[0].notch = 26
    /\ e.rotors[2].wiring[0] = 65
    /\ e.reflector[0] = 70

\* C10: Reset, called in any reachable state, sets the three rotor positions
\* to 0 and leaves every ring setting and every plugboard entry as it was.
C10_ResetFrame ==
    [][ call'.op = "Reset" =>
          /\ Positions(e') = <<0, 0, 0>>
          /\ RingSettings(e') = RingSettings(e)
          /\ e'.plugboard = e.plugboard
          /\ SameWiring(e', e)
      ]_vars

\* A machine just reset, with ring settings and a plugboard, after letters
\* were encrypted.
C10_Witness ==
    /\ phase = "api"
    /\ call.op = "Reset"
    /\ Positions(e) = <<0, 0, 0>>
    /\ RingSettings(e) = <<1, 25, 4>>
    /\ DOMAIN e.plugboard # {}
    /\ letters >= 1

\* C11: the range invariant. In every reachable state every rotor's position
\* and ring setting is an integer in 0..25, and the offset
\* (position - ringSetting + 26) % 26 of the substitution pass is in 0..25, so
\* every index into a wiring is in 0..25.
C11_Ranges ==
    e # nil =>
        \A i \in 0..2 :
            /\ e.rotors[i].position \in 0..25
            /\ e.rotors[i].ringSetting \in 0..25
            /\ Offset(e.rotors[i]) \in 0..25
            /\ \A pos \in 0..25 :
                  GoMod(pos + Offset(e.rotors[i]), 26) \in DOMAIN e.rotors[i].wiring

\* Rotors at 25, 25 and past 25 (wrapped by a letter), with the ring settings
\* 1, 25, 4, after a refused SetRingSettings.
C11_Witness ==
    /\ phase = "api"
    /\ call.op = "SetRingSettings"
    /\ call.err = OutOfRangeRing
    /\ letters >= 1
    /\ Positions(e) = <<25, 25, 0>>
    /\ RingSettings(e) = <<1, 25, 4>>

\* C12: the right rotor advances by exactly 1 mod 26 on every letter. After k
\* letters A-Z passed to encryptChar, with any number of non-letters in
\* between, from the right-rotor position p, the right rotor is at
\* (p + k) mod 26.
C12_RightRotorCounts ==
    phase = "step" => e.rotors[2].position = ((start[3] - 1) + letters) % 26

\* Two letters and then a non-letter, the right rotor having started at 25 with
\* the middle rotor at its notch: the right rotor is at 1.
C12_Witness ==
    /\ phase = "step"
    /\ letters = 2
    /\ call.op = "encryptChar"
    /\ call.args[1] \notin Letters
    /\ start[3] = 26
    /\ start[2] = e.rotors[1].notch
    /\ e.rotors[2].position = 1

\* The notch positions of the rotors: Q, E, V, J, Z.
NotchPosition ==
    [name \in KnownRotors |->
        CASE name = "I"   -> Ord("Q") - RuneA
          [] name = "II"  -> Ord("E") - RuneA
          [] name = "III" -> Ord("V") - RuneA
          [] name = "IV"  -> Ord("J") - RuneA
          [] name = "V"   -> Ord("Z") - RuneA]

\* C13: ordinary turnover. When the middle rotor is not at its notch position
\* before a letter step, the left rotor does not move in that step, and the
\* middle rotor advances by exactly 1 mod 26 if and only if the right rotor is
\* at its notch position (position = notch - 1); the notch positions are Q, E,
\* V, J, Z (16, 4, 21, 9, 25) for the rotors I, II, III, IV, V.
C13_OrdinaryTurnover ==
    [][ /\ (LetterStep /\ e.rotors[1].position # e.rotors[1].notch - 1) =>
              /\ e'.rotors[0].position = e.rotors[0].position
              /\ IF e.rotors[2].position = e.rotors[2].notch - 1
                 THEN e'.rotors[1].position = (e.rotors[1].position + 1) % 26
                 ELSE e'.rotors[1].position = e.rotors[1].position
        /\ \A i \in 0..2 :
              /\ e.rotors[i].notch - 1 = NotchPosition[e.rotors[i].name]
              /\ NotchPosition[e.rotors[i].name]
                    = (CASE e.rotors[i].name = "I"   -> 16
                         [] e.rotors[i].name = "II"  -> 4
                         [] e.rotors[i].name = "III" -> 21
                         [] e.rotors[i].name = "IV"  -> 9
                         [] e.rotors[i].name = "V"   -> 25)
      ]_vars

\* After the first letter from a start with the right rotor at its notch and
\* the middle rotor at 26, not its notch: the middle rotor has wrapped to 0,
\* the left rotor has stayed.
C13_Witness ==
    /\ phase = "step"
    /\ letters = 1
    /\ call.op = "encryptChar"
    /\ call.args[1] \in Letters
    /\ start[2] = 26
    /\ e.rotors[1].notch # 26
    /\ start[3] = e.rotors[2].notch
    /\ Positions(e) = <<start[1] - 1, 0, start[3] % 26>>

\* A wiring string is a bijection on the 26 letters: 26 bytes, each a letter,
\* no letter twice, every letter present.
IsBijection(w) ==
    /\ DOMAIN w = 0..25
    /\ \A j \in 0..25 : w[j] \in Letters
    /\ \A j, k \in 0..25 : w[j] = w[k] => j = k
    /\ \A x \in Letters : \E j \in 0..25 : w[j] = x

\* A wiring string is an involution without a fixed point.
IsInvolutionNoFixedPoint(w) ==
    \A x \in 0..25 :
        /\ w[w[x] - RuneA] - RuneA = x
        /\ w[x] - RuneA # x

TablesValid ==
    /\ DOMAIN rotorWirings = KnownRotors
    /\ DOMAIN reflectors = KnownReflectors
    /\ \A name \in KnownRotors : IsBijection(rotorWirings[name])
    /\ \A name \in KnownReflectors :
          /\ IsBijection(reflectors[name])
          /\ IsInvolutionNoFixedPoint(reflectors[name])

\* C14: the static tables. Each of the five rotor wirings I..V and each of the
\* three reflector wirings A, B, C is a bijection on the 26 letters, and each
\* reflector is an involution with no fixed point; a machine carries these
\* wirings.
C14_StaticTables ==
    /\ TablesValid
    /\ e # nil =>
          /\ \E name \in KnownReflectors : e.reflector = reflectors[name]
          /\ \A i \in 0..2 : e.rotors[i].wiring = rotorWirings[e.rotors[i].name]

\* A machine with reflector B and rotor V after a letter went through it.
C14_Witness ==
    /\ phase = "api"
    /\ e # nil
    /\ e.reflector = reflectors["B"]
    /\ e.rotors[1].name = "V"
    /\ call.op = "encryptChar"
    /\ call.args[1] \in Letters

\* C15: SetRingSettings(r0, r1, r2) is all-or-nothing like SetRotorPositions.
\* With an argument outside [1,26] it fails with OutOfRange and no ring setting
\* changes; otherwise rotor i's ring setting becomes r_i - 1; rotor positions
\* and plugboard are unchanged in both cases.
C15_SetRingSettingsAllOrNothing ==
    [][ call'.op = "SetRingSettings" =>
          LET r == call'.args
          IN  /\ IF \E i \in 1..3 : r[i] < 1 \/ r[i] > 26
                 THEN call'.err = OutOfRangeRing /\ RingSettings(e') = RingSettings(e)
                 ELSE /\ call'.err = NoError
                      /\ RingSettings(e') = <<r[1] - 1, r[2] - 1, r[3] - 1>>
              /\ Positions(e') = Positions(e)
              /\ e'.plugboard = e.plugboard
              /\ SameWiring(e', e)
      ]_vars

\* SetRingSettings(2, 2, 27), refused on a machine with the ring settings
\* 0, 0, 0, rotors off their initial positions and a plugboard.
C15_Witness ==
    /\ phase = "api"
    /\ call.op = "SetRingSettings"
    /\ call.args = <<2, 2, 27>>
    /\ call.err = OutOfRangeRing
    /\ RingSettings(e) = <<0, 0, 0>>
    /\ Positions(e) = <<2, 25, 16>>
    /\ DOMAIN e.plugboard # {}

\* C16: encryptChar cannot fail and does not alter the configuration. For every
\* reachable machine and every letter A-Z it returns a letter A-Z, and it
\* leaves ring settings, wirings, reflector and plugboard as they were; only
\* rotor positions change.
C16_EncryptKeepsConfiguration ==
    [][ LetterStep =>
          /\ call'.err = NoError
          /\ call'.ret \in Letters
          /\ RingSettings(e') = RingSettings(e)
          /\ e'.plugboard = e.plugboard
          /\ SameWiring(e', e)
          /\ Positions(e') # Positions(e)
      ]_vars

\* 'Z' encrypted to a letter by a machine with ring settings 1, 25, 4 and a
\* plugboard, its right rotor wrapping from 25 to 0.
C16_Witness ==
    /\ phase = "api"
    /\ call.op = "encryptChar"
    /\ call.args = <<90>>
    /\ call.ret \in Letters
    /\ RingSettings(e) = <<1, 25, 4>>
    /\ DOMAIN e.plugboard # {}
    /\ e.rotors[2].position = 0

\* C17: no letter encrypts to itself. For every machine and every plugboard
\* reachable through AddPlugboardConnection, one holding a self-pair included,
\* encryptChar(c) differs from c for every letter c.
C17_NoLetterToItself ==
    [][ LetterStep => call'.ret # call'.args[1] ]_vars

\* 'A' encrypted to another letter by a machine whose plugboard holds the
\* self-pair 'A' -> 'A'.
C17_Witness ==
    /\ phase = "api"
    /\ call.op = "encryptChar"
    /\ call.args = <<65>>
    /\ call.ret # 65
    /\ 65 \in DOMAIN e.plugboard
    /\ e.plugboard[65] = 65

RECURSIVE AfterLetters(_, _)
\* The machine m after k calls of encryptChar on 'A'.
AfterLetters(m, k) ==
    IF k = 0 THEN m ELSE AfterLetters(encryptChar(m, RuneA).e, k - 1)

\* The number of letters A-Z in a sequence of runes.
LettersIn(seq) == Cardinality({k \in 1..Len(seq) : seq[k] \in Letters})

\* A second machine with the rotor names of m and the starting positions st,
\* and with reflector B, ring settings 1, 1, 1 and no plugboard.
Reference(m, st) ==
    Configure(<<m.rotors[0].name, m.rotors[1].name, m.rotors[2].name>>, "B",
              st, <<1, 1, 1>>, << >>)

\* C18: stepping is independent of the data. Two machines with the same rotor
\* names and starting positions, whatever their ring settings, plugboards,
\* reflectors and input letters, have the same rotor positions after the same
\* number of letters: here the machine of the run, fed the message, and the
\* reference machine, fed as many times 'A'.
C18_SteppingIgnoresData ==
    phase \in {"enc", "dec"} =>
        Positions(e) = Positions(AfterLetters(Reference(e, start),
                                              LettersIn(IF phase = "enc" THEN s ELSE u)))

\* Three letters, none an 'A', through a machine with reflector A, ring
\* settings 2, 26, 5 and a plugboard, the left rotor having turned over.
C18_Witness ==
    /\ phase = "enc"
    /\ Len(s) = 3
    /\ \A k \in 1..3 : s[k] \in Letters \ {65}
    /\ e.reflector = reflectors["A"]
    /\ RingSettings(e) = <<1, 25, 4>>
    /\ DOMAIN e.plugboard # {}
    /\ start = <<1, 26, 17>>
    /\ e.rotors[0].position = 1

\* C19: the left rotor never advances in two consecutive letter steps and
\* never advances without the middle rotor advancing in the same step. A step
\* that moves the left rotor found the middle rotor at its notch and leaves it
\* one past its notch, so the next letter step leaves the left rotor where it
\* is; after two or more letters of a run the left rotor has advanced at most
\* once.
C19_LeftRotorNotTwice ==
    [][ LetterStep =>
          /\ e'.rotors[0].position # e.rotors[0].position =>
                /\ e'.rotors[0].position = (e.rotors[0].position + 1) % 26
                /\ e.rotors[1].position = e.rotors[1].notch - 1
                /\ e'.rotors[1].position = (e.rotors[1].position + 1) % 26
                /\ e'.rotors[1].position = e'.rotors[1].notch % 26
                /\ encryptChar(e', RuneA).e.rotors[0].position = e'.rotors[0].position
          /\ e'.rotors[0].position \in {start[1] - 1, start[1] % 26}
          /\ (letters' >= 2 /\ e.rotors[0].position # start[1] - 1) =>
                e'.rotors[0].position = e.rotors[0].position
      ]_vars

\* The second letter after a double step: the left rotor, turned over from 25
\* to 0 by the first letter, has stayed; the middle rotor is past its notch.
C19_Witness ==
    /\ phase = "step"
    /\ letters = 2
    /\ call.op = "encryptChar"
    /\ call.args[1] \in Letters
    /\ start[1] = 26
    /\ start[2] = e.rotors[1].notch
    /\ e.rotors[0].position = 0
    /\ e.rotors[1].position \in {start[2] % 26, (start[2] + 1) % 26}

\* The position triples that have no place on the cycle of the machine m: the
\* middle rotor at its notch without the right rotor one past its own, and
\* the middle and the right rotor both one past their notches.
Transient(m, p) ==
    LET nm == m.rotors[1].notch - 1
        nr == m.rotors[2].notch - 1
    IN  \/ p[2] = nm /\ p[3] # (nr + 1) % 26
        \/ p[2] = (nm + 1) % 26 /\ p[3] = (nr + 1) % 26

\* The positions k letters after the start of the run.
PositionsAfter(k) ==
    Positions(AfterLetters(SetRotorPositions(e, start[1], start[2], start[3]).e, k))

\* C20: the stepping period. The sequence of position triples produced by
\* successive letter steps is periodic from the second letter on, with period
\* exactly 16900 = 26 x 25 x 26, not 17576: the triple after n + 16900 letters
\* is the triple after n letters (n = 2, 3), no smaller positive shift brings
\* the triple after 2 letters back, and exactly 676 of the 17576 triples never
\* occur after two or more letters.
C20_Period ==
    phase = "period" =>
        /\ Period = 16900
        /\ (letters = 0 /\ start = <<1, 1, 1>>) =>
              Cardinality({p \in (0..25) \X (0..25) \X (0..25) : Transient(e, p)})
                 = 676
        /\ 26 * 26 * 26 - 676 = Period
        /\ letters >= 2 => ~Transient(e, Positions(e))
        /\ letters = Period + 2 => Positions(e) = PositionsAfter(2)
        /\ letters = Period + 3 => Positions(e) = PositionsAfter(3)
        /\ (letters > 2 /\ letters < Period + 2) => Positions(e) # PositionsAfter(2)

\* The end of a long run that started with the middle rotor at its notch: a
\* period after its second letter the rotors stand where they stood then.
C20_Witness ==
    /\ phase = "period"
    /\ letters = Period + 2
    /\ start = <<26, e.rotors[1].notch, 1>>
    /\ Positions(e) = PositionsAfter(2)
    /\ Positions(e) # <<25, start[2] - 1, 0>>

====
